---- MODULE Spec2Model ----
(***************************************************************************)
(* Model of streamlit_app.py: create_graph_data(df) and the main script    *)
(* that calls it, adds the selected group nodes and edges, and hands the   *)
(* graph to the renderer.                                                  *)
(*                                                                         *)
(* Text is a sequence of one-character strings, so that the f-string       *)
(* "<Sub-Topics> (<ID>)", the digit filter and the '#' test are computed   *)
(* on characters.  A dict is a function whose DOMAIN is its key set.       *)
(***************************************************************************)
EXTENDS Integers, Sequences, FiniteSets, TLC

VARIABLES pc, df, nodes, edges, grouping_cols, id_to_subtopic_id_map,
          rel_rows, i, selected_groups, exc, st_error, graph

vars == <<pc, df, nodes, edges, grouping_cols, id_to_subtopic_id_map,
          rel_rows, i, selected_groups, exc, st_error, graph>>

-----------------------------------------------------------------------------
(* Bound of the model: the longest uploaded table.                         *)
MaxRows == 2

-----------------------------------------------------------------------------
(* Column names.                                                           *)
ID == <<"I", "D">>
Interface == <<"I", "n", "t", "e", "r", "f", "a", "c", "e">>
System == <<"S", "y", "s", "t", "e", "m">>
Topics == <<"T", "o", "p", "i", "c", "s">>
SubTopics == <<"S", "u", "b", "-", "T", "o", "p", "i", "c", "s">>
Relationship == <<"R", "e", "l", "a", "t", "i", "o", "n", "s", "h", "i", "p">>
Remark == <<"R", "e", "m", "a", "r", "k">>

standard_cols == {ID, Interface, System, Topics, SubTopics, Relationship, Remark}

(* Variant: the key's f-string is evaluated before the other two reads.    *)
RowAccessOrderKeyFirst == <<SubTopics, ID, Interface, System>>

(* The columns every row of the hierarchy pass reads, in the order read.   *)
RowAccessOrder == <<Interface, System, SubTopics, ID>>

-----------------------------------------------------------------------------
(* Python values.                                                          *)
None == [kind |-> "None"]

(* Cells of the Relationship column: text, a float (a column of numbers    *)
(* and blanks is float64), or NaN for a blank.                             *)
Str(s) == [kind |-> "str", s |-> s, n |-> 0]
Float(n) == [kind |-> "float", s |-> <<>>, n |-> n]
NaN == [kind |-> "nan", s |-> <<>>, n |-> 0]

DigitChars == <<"0", "1", "2", "3", "4", "5", "6", "7", "8", "9">>

isdigit(c) == \E d \in DOMAIN DigitChars : DigitChars[d] = c

RECURSIVE Decimal(_)
Decimal(n) == IF n < 10 THEN <<DigitChars[n + 1]>>
              ELSE Decimal(n \div 10) \o <<DigitChars[(n % 10) + 1]>>

(* str(v) of a Relationship cell; only non-NaN cells reach it.             *)
PyStr(v) == CASE v.kind = "str" -> v.s
              [] v.kind = "float" -> Decimal(v.n) \o <<".", "0">>
              [] OTHER -> <<"n", "a", "n">>

(* f"{row['Sub-Topics']} ({row['ID']})"                                    *)
SubTopicId(sub, id) == sub \o <<" ", "(">> \o id \o <<")">>

(* dict[k] = v                                                             *)
Put(d, k, v) == [x \in (DOMAIN d) \cup {k} |-> IF x = k THEN v ELSE d[x]]

(* KeyError(key), as a row or dict lookup raises it, and KeyError([key]),   *)
(* as dropna raises it for a label of subset that is no column.            *)
KeyError(k) == [kind |-> "KeyError", arg |-> k, listed |-> FALSE]
KeyErrorList(k) == [kind |-> "KeyError", arg |-> k, listed |-> TRUE]

Repr(s) == <<"'">> \o s \o <<"'">>

(* f"An error occurred: {e}"; str of a KeyError is the repr of its         *)
(* argument.                                                               *)
ErrorMessage(e) ==
  <<"A", "n", " ", "e", "r", "r", "o", "r", " ", "o", "c", "c", "u", "r",
    "r", "e", "d", ":", " ">>
    \o (IF e.listed THEN <<"[">> \o Repr(e.arg) \o <<"]">> ELSE Repr(e.arg))

-----------------------------------------------------------------------------
(* create_graph_data, one loop body at a time.  A frame is the function's  *)
(* locals plus the exception raised, if any.                               *)

Frame(n, e, x) == [nodes |-> n, edges |-> e, exc |-> x]

(* Variant: the edge is entered finer to coarser.                          *)
HierarchyEdgeReversed(s, t) == [source |-> t, target |-> s, kind |-> "Hierarchy"]

HierarchyEdge(s, t) == [source |-> s, target |-> t, kind |-> "Hierarchy"]

RECURSIVE FirstMissing(_, _, _)
FirstMissing(order, cols, k) ==
  IF k > Len(order) THEN None
  ELSE IF order[k] \notin cols THEN KeyError(order[k])
  ELSE FirstMissing(order, cols, k + 1)

(* nodes[key]['count'] += 1 after "if key not in nodes: nodes[key] = ..."  *)
RegisterCounted(n, key, type) ==
  LET n1 == IF key \in DOMAIN n THEN n
            ELSE Put(n, key, [type |-> type, count |-> 0])
  IN IF "count" \in DOMAIN n1[key]
       THEN Frame(Put(n1, key, [n1[key] EXCEPT !.count = @ + 1]), <<>>, None)
       ELSE Frame(n1, <<>>, KeyError(<<"c", "o", "u", "n", "t">>))

(* Lines 22-36 for one row.                                                *)
HierarchyStep(n, e, cols, row) ==
  LET missing == FirstMissing(RowAccessOrder, cols, 1) IN
  IF missing # None THEN Frame(n, e, missing)
  ELSE
    LET interface == row[Interface]
        system == row[System]
        sub_topic_id == SubTopicId(row[SubTopics], row[ID])
        sub_topic_label == row[SubTopics]
        f1 == RegisterCounted(n, interface, "Interface")
    IN IF f1.exc # None THEN Frame(f1.nodes, e, f1.exc)
       ELSE
         LET f2 == RegisterCounted(f1.nodes, system, "System")
         IN IF f2.exc # None THEN Frame(f2.nodes, e, f2.exc)
            ELSE
              LET n3 == IF sub_topic_id \in DOMAIN f2.nodes THEN f2.nodes
                        ELSE Put(f2.nodes, sub_topic_id,
                                 [type |-> "Sub-Topic", label |-> sub_topic_label])
              IN Frame(n3,
                       e \o <<HierarchyEdge(interface, system),
                              HierarchyEdge(system, sub_topic_id)>>,
                       None)

(* Variant: dict.setdefault, the first row with an ID keeps it.            *)
RECURSIVE IdMapFirstWins(_, _)
IdMapFirstWins(rows, k) ==
  IF k = 0 THEN <<>>
  ELSE LET m == IdMapFirstWins(rows, k - 1) IN
       IF rows[k][ID] \in DOMAIN m THEN m
       ELSE Put(m, rows[k][ID], SubTopicId(rows[k][SubTopics], rows[k][ID]))

(* Line 39: the dict comprehension; a later row overwrites an earlier one. *)
RECURSIVE IdMap(_, _)
IdMap(rows, k) ==
  IF k = 0 THEN <<>>
  ELSE Put(IdMap(rows, k - 1), rows[k][ID],
           SubTopicId(rows[k][SubTopics], rows[k][ID]))

IsPresent(row) == row[Relationship].kind # "nan"

(* Variant: a table without the column has no row with a Relationship.    *)
DropNaIfPresent(table) ==
  IF Relationship \notin table.columns
    THEN [rows |-> <<>>, exc |-> None]
    ELSE [rows |-> SelectSeq(table.rows, IsPresent), exc |-> None]

(* Line 42: df.dropna(subset=['Relationship'])                             *)
DropNa(table) ==
  IF Relationship \notin table.columns
    THEN [rows |-> <<>>, exc |-> KeyErrorList(Relationship)]
    ELSE [rows |-> SelectSeq(table.rows, IsPresent), exc |-> None]

HasHash(s) == \E k \in DOMAIN s : s[k] = "#"

(* Line 44.                                                                *)
TargetId(target_id_str) ==
  IF ~HasHash(target_id_str)
    THEN <<"#">> \o SelectSeq(target_id_str, isdigit)
    ELSE target_id_str

RelationTitle(source_id, target_id) ==
  <<"R", "e", "l", "a", "t", "i", "o", "n", ":", " ">>
    \o source_id \o <<"→">> \o target_id

(* Variant: only the source is looked up before the edge is built, and an *)
(* unknown target is kept as it is written.                                *)
RelationStepUnchecked(e, map, row) ==
  LET source_id == row[ID]
      target_id == TargetId(PyStr(row[Relationship]))
  IN IF source_id \in DOMAIN map
       THEN Append(e, [source |-> map[source_id],
                       target |-> IF target_id \in DOMAIN map THEN map[target_id]
                                  ELSE target_id,
                       kind |-> "Relation",
                       title |-> RelationTitle(source_id, target_id)])
       ELSE e

(* Lines 43-48 for one row that has a Relationship.                        *)
RelationStep(e, map, row) ==
  LET source_id == row[ID]
      target_id_str == PyStr(row[Relationship])
      target_id == TargetId(target_id_str)
  IN IF source_id \in DOMAIN map /\ target_id \in DOMAIN map
       THEN Append(e, [source |-> map[source_id], target |-> map[target_id],
                       kind |-> "Relation",
                       title |-> RelationTitle(source_id, target_id)])
       ELSE e

(* Lines 78-85 for one selected group.                                     *)
RECURSIVE GroupEdges(_, _, _, _, _)
GroupEdges(n, e, rows, group, k) ==
  IF k > Len(rows) THEN e
  ELSE LET row == rows[k]
           sub_topic_id == SubTopicId(row[SubTopics], row[ID])
           e1 == IF row[group] = TRUE /\ sub_topic_id \in DOMAIN n
                   THEN Append(e, [source |-> group, target |-> sub_topic_id,
                                   kind |-> "Group"])
                   ELSE e
       IN GroupEdges(n, e1, rows, group, k + 1)

(* Variant: the rows are not filtered by the group's flag.                 *)
GroupStepUnfiltered(n, e, table, group) ==
  IF group \in table.columns
    THEN LET n1 == Put(n, group, [type |-> "Group"])
         IN Frame(n1,
                  e \o [k \in DOMAIN table.rows |->
                          [source |-> group,
                           target |-> SubTopicId(table.rows[k][SubTopics],
                                                 table.rows[k][ID]),
                           kind |-> "Group"]],
                  None)
    ELSE Frame(n, e, None)

GroupStep(n, e, table, group) ==
  IF group \in table.columns
    THEN LET n1 == Put(n, group, [type |-> "Group"])
         IN Frame(n1, GroupEdges(n1, e, table.rows, group, 1), None)
    ELSE Frame(n, e, None)

-----------------------------------------------------------------------------
(* The whole of create_graph_data and of the group loop as functions of    *)
(* the table, composed from the same loop bodies the actions apply.        *)

RECURSIVE HierarchyPass(_, _, _)
HierarchyPass(f, table, k) ==
  IF k > Len(table.rows) \/ f.exc # None THEN f
  ELSE HierarchyPass(HierarchyStep(f.nodes, f.edges, table.columns, table.rows[k]),
                     table, k + 1)

RECURSIVE RelationPass(_, _, _, _)
RelationPass(e, map, rows, k) ==
  IF k > Len(rows) THEN e
  ELSE RelationPass(RelationStep(e, map, rows[k]), map, rows, k + 1)

CreateGraphData(table) ==
  LET h == HierarchyPass(Frame(<<>>, <<>>, None), table, 1) IN
  IF h.exc # None THEN h
  ELSE LET d == DropNa(table) IN
       IF d.exc # None THEN Frame(h.nodes, h.edges, d.exc)
       ELSE Frame(h.nodes,
                  RelationPass(h.edges, IdMap(table.rows, Len(table.rows)), d.rows, 1),
                  None)

RECURSIVE GroupPass(_, _, _, _)
GroupPass(f, table, selected, k) ==
  IF k > Len(selected) THEN f
  ELSE GroupPass(GroupStep(f.nodes, f.edges, table, selected[k]), table, selected, k + 1)

(* Lines 69-85 and 142: what one run of the script leaves in nodes, edges. *)
RunScript(table, selected) ==
  LET g == CreateGraphData(table) IN
  IF g.exc # None THEN g ELSE GroupPass(g, table, selected, 1)

-----------------------------------------------------------------------------
(* The uploaded tables.                                                    *)

Critical == <<"C", "r", "i", "t", "i", "c", "a", "l">>

(* Texts used as cell values.  GroupN is a grouping column whose name is   *)
(* also an Interface and System value; KeyT1 is an Interface value that is *)
(* also the Sub-Topic key of the row (t, #1).                              *)
Id1 == <<"#", "1">>
Id10 == <<"#", "1", "0">>
TextN == <<"N">>
TextS == <<"S">>
TextT == <<"t">>
TextU == <<"u">>
GroupN == TextN
(* Two (Sub-Topics, ID) pairs with one key: (t, "x (#1") and ("t (x", #1). *)
IdX1 == <<"x", " ", "(", "#", "1">>
TextTX == <<"t", " ", "(", "x">>
KeyT1 == SubTopicId(TextT, Id1)

RelValues == { NaN,
               Str(<<"1", "0">>),
               Str(<<"#", "1", "0">>),
               Str(<<"#", " ", "1", "0">>),
               Str(<<"#", "9", "9", "9">>),
               Float(10) }

Required == {ID, Interface, System, SubTopics}
AllColumns == Required \cup {Topics, Relationship, Critical, GroupN}

Row(id, interface, system, sub, rel, crit, inN) ==
  [c \in AllColumns |->
     CASE c = ID -> id
       [] c = Interface -> interface
       [] c = System -> system
       [] c = SubTopics -> sub
       [] c = Topics -> TextT
       [] c = Relationship -> rel
       [] c = Critical -> crit
       [] OTHER -> inN]

RowPool ==
  { Row(Id1, TextN, TextS, TextT, r, TRUE, FALSE) : r \in RelValues }
  \cup { Row(Id10, TextN, TextS, s, NaN, c, TRUE) : s \in {TextT, TextU}, c \in BOOLEAN }
  \cup { Row(Id10, x, TextN, TextT, Str(Id10), FALSE, FALSE) : x \in {TextS, KeyT1} }
  \cup { Row(IdX1, TextN, TextS, TextT, NaN, FALSE, FALSE),
         Row(Id1, TextN, TextS, TextTX, NaN, FALSE, FALSE) }

ColumnSets ==
  { Required \cup X : X \in SUBSET (AllColumns \ Required) }
  \cup { AllColumns \ Y : Y \in SUBSET Required }

Table(cols, rows) ==
  [columns |-> cols,
   rows |-> [k \in DOMAIN rows |-> [c \in cols |-> rows[k][c]]]]

(* The values st.multiselect can return: the chosen options, in the order  *)
(* chosen, without repetition.                                             *)
Selections(options) ==
  { s \in UNION { [1..n -> options] : n \in 0..Cardinality(options) } :
      \A a, b \in DOMAIN s : s[a] = s[b] => a = b }

-----------------------------------------------------------------------------
(* The script.                                                             *)

Init ==
  /\ pc = "idle"
  /\ df = None
  /\ nodes = <<>>
  /\ edges = <<>>
  /\ grouping_cols = {}
  /\ id_to_subtopic_id_map = <<>>
  /\ rel_rows = <<>>
  /\ i = 1
  /\ selected_groups = <<>>
  /\ exc = None
  /\ st_error = None
  /\ graph = None

(* Lines 68-71, 13-18: a file is uploaded, read, and create_graph_data     *)
(* starts on it.                                                           *)
Upload ==
  /\ pc = "idle"
  /\ \E cols \in ColumnSets, n \in 0..MaxRows :
       \E rows \in [1..n -> RowPool] :
         /\ df' = Table(cols, rows)
         /\ grouping_cols' = cols \ standard_cols
  /\ nodes' = <<>>
  /\ edges' = <<>>
  /\ i' = 1
  /\ pc' = "hierarchy"
  /\ UNCHANGED <<id_to_subtopic_id_map, rel_rows, selected_groups, exc, st_error, graph>>

(* Lines 21-36: one iteration of the hierarchy loop.                       *)
HierarchyRow ==
  /\ pc = "hierarchy"
  /\ i <= Len(df.rows)
  /\ LET f == HierarchyStep(nodes, edges, df.columns, df.rows[i]) IN
       /\ nodes' = f.nodes
       /\ edges' = f.edges
       /\ exc' = f.exc
       /\ IF f.exc # None
            THEN pc' = "raised" /\ i' = i
            ELSE pc' = "hierarchy" /\ i' = i + 1
  /\ UNCHANGED <<df, grouping_cols, id_to_subtopic_id_map, rel_rows, selected_groups,
                 st_error, graph>>

(* Line 39.                                                                *)
BuildIdMap ==
  /\ pc = "hierarchy"
  /\ i > Len(df.rows)
  /\ id_to_subtopic_id_map' = IdMap(df.rows, Len(df.rows))
  /\ pc' = "dropna"
  /\ UNCHANGED <<df, nodes, edges, grouping_cols, rel_rows, i, selected_groups, exc,
                 st_error, graph>>

(* Line 42: the loop's iterable is evaluated.                              *)
DropNaRows ==
  /\ pc = "dropna"
  /\ LET d == DropNa(df) IN
       /\ rel_rows' = d.rows
       /\ exc' = d.exc
       /\ pc' = IF d.exc # None THEN "raised" ELSE "relation"
  /\ i' = 1
  /\ UNCHANGED <<df, nodes, edges, grouping_cols, id_to_subtopic_id_map,
                 selected_groups, st_error, graph>>

(* Lines 43-48: one iteration of the relationship loop.                    *)
RelationRow ==
  /\ pc = "relation"
  /\ i <= Len(rel_rows)
  /\ edges' = RelationStep(edges, id_to_subtopic_id_map, rel_rows[i])
  /\ i' = i + 1
  /\ UNCHANGED <<pc, df, nodes, grouping_cols, id_to_subtopic_id_map, rel_rows,
                 selected_groups, exc, st_error, graph>>

(* Lines 50, 71: create_graph_data returns nodes, edges, grouping_cols.    *)
Return ==
  /\ pc = "relation"
  /\ i > Len(rel_rows)
  /\ pc' = "multiselect"
  /\ UNCHANGED <<df, nodes, edges, grouping_cols, id_to_subtopic_id_map, rel_rows, i,
                 selected_groups, exc, st_error, graph>>

(* Line 74: the sidebar's selection among grouping_cols.                   *)
Multiselect ==
  /\ pc = "multiselect"
  /\ \E s \in Selections(grouping_cols) : selected_groups' = s
  /\ i' = 1
  /\ pc' = "group"
  /\ UNCHANGED <<df, nodes, edges, grouping_cols, id_to_subtopic_id_map, rel_rows, exc,
                 st_error, graph>>

(* Lines 77-85: one iteration of the loop over the selected groups.        *)
GroupNode ==
  /\ pc = "group"
  /\ i <= Len(selected_groups)
  /\ LET f == GroupStep(nodes, edges, df, selected_groups[i]) IN
       /\ nodes' = f.nodes
       /\ edges' = f.edges
  /\ i' = i + 1
  /\ UNCHANGED <<pc, df, grouping_cols, id_to_subtopic_id_map, rel_rows,
                 selected_groups, exc, st_error, graph>>

(* Lines 87-140: the graph goes to the renderer when there is one.         *)
Render ==
  /\ pc = "group"
  /\ i > Len(selected_groups)
  /\ graph' = IF nodes # <<>> /\ edges # <<>>
                THEN [nodes |-> nodes, edges |-> edges]
                ELSE None
  /\ pc' = "end"
  /\ UNCHANGED <<df, nodes, edges, grouping_cols, id_to_subtopic_id_map, rel_rows, i,
                 selected_groups, exc, st_error>>

(* Lines 142-143: the handler of the try block.                            *)
Except ==
  /\ pc = "raised"
  /\ st_error' = ErrorMessage(exc)
  /\ exc' = None
  /\ pc' = "end"
  /\ UNCHANGED <<df, nodes, edges, grouping_cols, id_to_subtopic_id_map, rel_rows, i,
                 selected_groups, graph>>

Next ==
  \/ Upload
  \/ HierarchyRow
  \/ BuildIdMap
  \/ DropNaRows
  \/ RelationRow
  \/ Return
  \/ Multiselect
  \/ GroupNode
  \/ Render
  \/ Except

Spec == Init /\ [][Next]_vars

-----------------------------------------------------------------------------
(* Vocabulary of the properties.                                           *)

Range(seq) == { seq[k] : k \in DOMAIN seq }

KeyOf(row) == SubTopicId(row[SubTopics], row[ID])

IsHierarchy(e) == e.kind = "Hierarchy"
IsRelation(e) == e.kind = "Relation"
IsGroup(e) == e.kind = "Group"

(* create_graph_data has returned and the group loop has not yet run.      *)
Built == pc = "multiselect"

(* The script ran to its end without an exception.                         *)
Finished == pc = "end" /\ st_error = None

(* nodes and edges hold a returned graph.                                  *)
Returned == pc \in {"multiselect", "group"} \/ Finished

(* How many places of text s the text sub occurs at.                       *)
Occurrences(sub, s) ==
  Cardinality({ k \in 1..(Len(s) - Len(sub) + 1) : SubSeq(s, k, k + Len(sub) - 1) = sub })

(* No Interface or System value is the Sub-Topic key of an earlier row.    *)
NoKeyClash(table) ==
  \A j, k \in DOMAIN table.rows :
    j < k => /\ table.rows[k][Interface] # KeyOf(table.rows[j])
             /\ table.rows[k][System] # KeyOf(table.rows[j])

(* The last row, in input order, whose ID is id.                           *)
LastWithId(rows, id) ==
  rows[CHOOSE k \in DOMAIN rows :
         /\ rows[k][ID] = id
         /\ \A j \in DOMAIN rows : rows[j][ID] = id => j <= k]

Ids(rows) == { rows[k][ID] : k \in DOMAIN rows }

-----------------------------------------------------------------------------
(* C1: with row A (ID "#1") and row B (ID "#10", no Relationship), A's     *)
(* Relationship written "10", "#10" or "# 10" yields in each case exactly  *)
(* one Relation edge, from A's Sub-Topic key to B's.                       *)
C1_FormatInsensitive ==
  ( /\ Built
    /\ Len(df.rows) = 2
    /\ df.rows[1][ID] = Id1
    /\ df.rows[2][ID] = Id10
    /\ df.rows[1][Relationship] \in { Str(<<"1", "0">>), Str(<<"#", "1", "0">>),
                                      Str(<<"#", " ", "1", "0">>) }
    /\ df.rows[2][Relationship] = NaN )
  => LET rel == SelectSeq(edges, IsRelation) IN
       /\ Len(rel) = 1
       /\ rel[1].source = KeyOf(df.rows[1])
       /\ rel[1].target = KeyOf(df.rows[2])

-----------------------------------------------------------------------------
(* C2, as claimed: whenever a required column is absent the run fails with *)
(* an error that lists every missing column once, and no node or edge was  *)
(* produced.                                                               *)
C2_ErrorListsEveryMissingColumn ==
  (pc = "end" /\ ~(Required \subseteq df.columns))
  => /\ st_error # None
     /\ \A c \in Required \ df.columns : Occurrences(c, st_error) = 1
     /\ nodes = <<>> /\ edges = <<>> /\ graph = None

FirstAbsent(cols) ==
  IF Interface \notin cols THEN Interface
  ELSE IF System \notin cols THEN System
  ELSE IF SubTopics \notin cols THEN SubTopics
  ELSE ID

(* C2, amended: when a required column is absent and the table has a row,  *)
(* the run fails at the first row with KeyError naming one column, the     *)
(* first absent one in the order Interface, System, Sub-Topics, ID, before *)
(* any node or edge exists, and nothing is rendered; a table without rows  *)
(* is not checked at all: it fails only when Relationship is absent, and   *)
(* otherwise yields no edge, no node but those of the selected groups, and *)
(* nothing to render.                                                      *)
C2_FirstAbsentColumnRaised ==
  (pc = "end" /\ ~(Required \subseteq df.columns))
  => IF Len(df.rows) >= 1
       THEN /\ st_error = ErrorMessage(KeyError(FirstAbsent(df.columns)))
            /\ \A c \in Required \ {FirstAbsent(df.columns)} :
                 Occurrences(c, st_error) = 0
            /\ nodes = <<>> /\ edges = <<>> /\ graph = None
       ELSE /\ (st_error # None) <=> (Relationship \notin df.columns)
            /\ \A k \in DOMAIN nodes : nodes[k].type = "Group"
            /\ edges = <<>> /\ graph = None

C2_Witness ==
  /\ pc = "end"
  /\ Len(df.rows) = 2
  /\ Required \ df.columns = {System, ID}
  /\ st_error = ErrorMessage(KeyError(System))

-----------------------------------------------------------------------------
(* C3: after the build every Interface value's node counts the rows with   *)
(* that Interface value, and every System value's node the rows with that  *)
(* System value.                                                           *)
C3_CountsMatchRows ==
  Built =>
    \A r \in Range(df.rows) :
      /\ r[Interface] \in DOMAIN nodes
      /\ "count" \in DOMAIN nodes[r[Interface]]
      /\ nodes[r[Interface]].count =
           Cardinality({ k \in DOMAIN df.rows : df.rows[k][Interface] = r[Interface] })
      /\ r[System] \in DOMAIN nodes
      /\ "count" \in DOMAIN nodes[r[System]]
      /\ nodes[r[System]].count =
           Cardinality({ k \in DOMAIN df.rows : df.rows[k][System] = r[System] })

-----------------------------------------------------------------------------
(* C4: the built graph has as many Sub-Topic nodes as the table has        *)
(* distinct (Sub-Topics, ID) pairs.                                        *)
C4_SubTopicNodesMatchPairs ==
  Built =>
    Cardinality({ k \in DOMAIN nodes : nodes[k].type = "Sub-Topic" })
      = Cardinality({ <<r[SubTopics], r[ID]>> : r \in Range(df.rows) })

-----------------------------------------------------------------------------
(* C5: in a returned graph the first 2n edges are, row by row in input     *)
(* order, Hierarchy Interface -> System then Hierarchy System -> Sub-Topic *)
(* key, and there is no other Hierarchy edge.                              *)
C5_HierarchyEdgesInRowOrder ==
  Returned =>
    /\ Len(edges) >= 2 * Len(df.rows)
    /\ \A k \in DOMAIN df.rows :
         /\ edges[2 * k - 1] = [source |-> df.rows[k][Interface],
                                target |-> df.rows[k][System],
                                kind |-> "Hierarchy"]
         /\ edges[2 * k] = [source |-> df.rows[k][System],
                            target |-> KeyOf(df.rows[k]),
                            kind |-> "Hierarchy"]
    /\ Len(SelectSeq(edges, IsHierarchy)) = 2 * Len(df.rows)

C5_Witness ==
  /\ Finished
  /\ Len(df.rows) = 2
  /\ df.rows[1][Interface] = df.rows[2][Interface]
  /\ df.rows[1][System] = df.rows[2][System]
  /\ KeyOf(df.rows[1]) # KeyOf(df.rows[2])
  /\ Len(edges) > 4

-----------------------------------------------------------------------------
GroupTargets(g, k) ==
  { j \in DOMAIN edges : IsGroup(edges[j]) /\ edges[j].source = g /\ edges[j].target = k }

(* C6: at the end of a run, each selected grouping column g has a node of  *)
(* type Group keyed g and, to every Sub-Topic key, as many Group edges as  *)
(* there are rows with that key whose g is true; an unselected grouping    *)
(* column has no Group node and no Group edge; the Group nodes are exactly *)
(* the selected columns, each of them a column of the table; and the loop  *)
(* body run on a name that is no column changes nothing and raises         *)
(* nothing.                                                                *)
C6_GroupPass ==
  Finished =>
    /\ \A g \in Range(selected_groups) :
         /\ g \in df.columns
         /\ g \in DOMAIN nodes /\ nodes[g] = [type |-> "Group"]
         /\ \A r \in Range(df.rows) :
              Cardinality(GroupTargets(g, KeyOf(r)))
                = Cardinality({ k \in DOMAIN df.rows :
                                  df.rows[k][g] = TRUE /\ KeyOf(df.rows[k]) = KeyOf(r) })
    /\ \A j \in DOMAIN edges :
         IsGroup(edges[j]) =>
           /\ edges[j].source \in Range(selected_groups)
           /\ edges[j].target \in { KeyOf(r) : r \in Range(df.rows) }
    /\ { k \in DOMAIN nodes : nodes[k].type = "Group" } = Range(selected_groups)
    /\ \A g \in AllColumns \ df.columns :
         GroupStep(nodes, edges, df, g) = Frame(nodes, edges, None)

C6_Witness ==
  /\ Finished
  /\ selected_groups = <<Critical>>
  /\ GroupN \in df.columns
  /\ Len(df.rows) = 2
  /\ df.rows[1][Critical] = TRUE /\ df.rows[2][Critical] = TRUE
  /\ df.rows[2][GroupN] = TRUE
  /\ KeyOf(df.rows[1]) # KeyOf(df.rows[2])
  /\ Len(SelectSeq(edges, IsGroup)) = 2

-----------------------------------------------------------------------------
(* Row k has a Relationship whose normalized target is no row's ID.        *)
Dangling(k) ==
  /\ Required \cup {Relationship} \subseteq df.columns
  /\ IsPresent(df.rows[k])
  /\ TargetId(PyStr(df.rows[k][Relationship])) \notin Ids(df.rows)

Blanked(table, k) ==
  [table EXCEPT !.rows[k][Relationship] = NaN]

(* C7: a row with a dangling Relationship adds no Relation edge, and the   *)
(* run ends as it ends on the table with that Relationship blank: same     *)
(* nodes, same edges, same error or none.                                  *)
C7_DanglingReferenceIgnored ==
  pc = "end" =>
    \A k \in DOMAIN df.rows :
      Dangling(k) =>
        LET other == RunScript(Blanked(df, k), selected_groups) IN
          /\ nodes = other.nodes
          /\ edges = other.edges
          /\ st_error = IF other.exc = None THEN None ELSE ErrorMessage(other.exc)
          /\ \A j \in DOMAIN edges :
               IsRelation(edges[j]) =>
                 edges[j].title #
                   RelationTitle(df.rows[k][ID],
                                 TargetId(PyStr(df.rows[k][Relationship])))

C7_Witness ==
  /\ Finished
  /\ Len(df.rows) = 2
  /\ Dangling(1)
  /\ df.rows[1][Relationship] = Str(<<"#", "9", "9", "9">>)
  /\ ~Dangling(2)
  /\ Len(SelectSeq(edges, IsRelation)) = 1

-----------------------------------------------------------------------------
(* C8, as claimed: a table with the four required columns and no           *)
(* Relationship column builds without error: all Hierarchy edges, no       *)
(* Relation edge.                                                          *)
C8_RelationshipColumnOptional ==
  (pc = "end" /\ Required \subseteq df.columns /\ Relationship \notin df.columns)
  => /\ st_error = None
     /\ Len(SelectSeq(edges, IsHierarchy)) = 2 * Len(df.rows)
     /\ SelectSeq(edges, IsRelation) = <<>>

(* C8, amended: the Relationship column is required and only its values    *)
(* are optional.  Without the column every run fails and renders nothing;  *)
(* when the hierarchy pass completes, the error is KeyError                *)
(* ['Relationship'], raised after the 2n Hierarchy edges were built.  With *)
(* the column present and every value blank, a returned graph has all the  *)
(* Hierarchy edges and no Relation edge.                                   *)
C8_RelationshipColumnRequired ==
  /\ (pc = "end" /\ Relationship \notin df.columns)
     => /\ st_error # None
        /\ graph = None
        /\ (Required \subseteq df.columns /\ NoKeyClash(df))
           => /\ st_error = ErrorMessage(KeyErrorList(Relationship))
              /\ Len(SelectSeq(edges, IsHierarchy)) = 2 * Len(df.rows)
  /\ (Returned /\ Relationship \in df.columns
               /\ \A r \in Range(df.rows) : ~IsPresent(r))
     => /\ Len(SelectSeq(edges, IsHierarchy)) = 2 * Len(df.rows)
        /\ SelectSeq(edges, IsRelation) = <<>>

C8_Witness ==
  /\ pc = "end"
  /\ Required \subseteq df.columns
  /\ Relationship \notin df.columns
  /\ Len(df.rows) = 2
  /\ Len(edges) = 4
  /\ st_error = ErrorMessage(KeyErrorList(Relationship))

-----------------------------------------------------------------------------
(* The Relation edge a row with a Relationship must produce, if any.       *)
ExpectedRelation(rows, row) ==
  LET target_id == TargetId(PyStr(row[Relationship])) IN
  IF target_id \in Ids(rows)
    THEN <<[source |-> KeyOf(LastWithId(rows, row[ID])),
            target |-> KeyOf(LastWithId(rows, target_id))]>>
    ELSE <<>>

RECURSIVE ExpectedRelations(_, _)
ExpectedRelations(rows, k) ==
  IF k = 0 THEN <<>>
  ELSE ExpectedRelations(rows, k - 1)
         \o (IF IsPresent(rows[k]) THEN ExpectedRelation(rows, rows[k]) ELSE <<>>)

EndPoints(e) == [source |-> e.source, target |-> e.target]

RECURSIVE MapSeq(_, _)
MapSeq(es, k) == IF k = 0 THEN <<>> ELSE Append(MapSeq(es, k - 1), EndPoints(es[k]))

(* C9: the identifier index maps every ID to the Sub-Topic key of the last *)
(* row with that ID; the Relation edges of a built graph are, in row       *)
(* order, those of the rows whose target resolves, each endpoint the key   *)
(* of the last row with the source's or target's ID; and a table with all  *)
(* columns and no Interface or System value equal to an earlier row's      *)
(* Sub-Topic key ends without error, duplicated IDs or not.                *)
C9_DuplicateIdLastWriteWins ==
  /\ pc \in {"dropna", "relation", "multiselect", "group"}
     => /\ DOMAIN id_to_subtopic_id_map = Ids(df.rows)
        /\ \A r \in Range(df.rows) :
             id_to_subtopic_id_map[r[ID]] = KeyOf(LastWithId(df.rows, r[ID]))
  /\ Built
     => LET rel == SelectSeq(edges, IsRelation) IN
          MapSeq(rel, Len(rel)) = ExpectedRelations(df.rows, Len(df.rows))
  /\ (pc = "end" /\ Required \cup {Relationship} \subseteq df.columns /\ NoKeyClash(df))
     => st_error = None

C9_Witness ==
  /\ Finished
  /\ Len(df.rows) = 2
  /\ df.rows[1][ID] = df.rows[2][ID]
  /\ KeyOf(df.rows[1]) # KeyOf(df.rows[2])
  /\ IsPresent(df.rows[1])
  /\ \E j \in DOMAIN edges :
       /\ IsRelation(edges[j])
       /\ edges[j].source = KeyOf(df.rows[2])
       /\ edges[j].target = KeyOf(df.rows[2])

-----------------------------------------------------------------------------
TypeOf(k) == IF k \in DOMAIN nodes THEN nodes[k].type ELSE "absent"

(* C10: in every returned graph a Hierarchy edge goes from an Interface    *)
(* node to a System node or from a System node to a Sub-Topic node, a      *)
(* Relation edge joins two Sub-Topic nodes, and a Group edge goes from a   *)
(* Group node to a Sub-Topic node.                                         *)
C10_EdgeEndpointsTyped ==
  Returned =>
    \A j \in DOMAIN edges :
      LET e == edges[j]
          s == TypeOf(e.source)
          t == TypeOf(e.target)
      IN CASE IsHierarchy(e) -> \/ s = "Interface" /\ t = "System"
                                \/ s = "System" /\ t = "Sub-Topic"
           [] IsRelation(e) -> s = "Sub-Topic" /\ t = "Sub-Topic"
           [] OTHER -> s = "Group" /\ t = "Sub-Topic"

====
